---- MODULE Spec2Model ----
(***************************************************************************)
(* Model of the fraud-scoring engine of src/python/fraud_detector.py:      *)
(* the five detectors, the weighted fusion, the classification threshold   *)
(* and the explanation list of detect_fraud.  Messages are strings; every  *)
(* detector is computed character by character the way the Python code     *)
(* computes it (str.lower, substring tests, str.split, re.findall and      *)
(* re.search of the fixed patterns).                                       *)
(***************************************************************************)
EXTENDS Integers, Sequences, FiniteSets, TLC

(***************************************************************************)
(* Bounds of the model.                                                    *)
(***************************************************************************)
\* a message is at most MaxTokens fragments, joined by single spaces
MaxTokens == 2
\* number of evaluations of detect_fraud that may be in flight at once
NumRequests == 2

(***************************************************************************)
(* Python string primitives.                                               *)
(***************************************************************************)
Min(a, b) == IF a <= b THEN a ELSE b

Ch(s, i) == SubSeq(s, i, i)

UpperLetters == "ABCDEFGHIJKLMNOPQRSTUVWXYZ"
LowerLetters == "abcdefghijklmnopqrstuvwxyz"
Digits == "0123456789"

CharsOf(s) == {Ch(s, i) : i \in 1..Len(s)}

UpperSet == CharsOf(UpperLetters)
LowerSet == CharsOf(LowerLetters)
DigitSet == CharsOf(Digits)

LowerOf == [c \in UpperSet |->
              Ch(LowerLetters, CHOOSE i \in 1..Len(UpperLetters) : Ch(UpperLetters, i) = c)]

IsUpperChar(c) == c \in UpperSet
IsLowerChar(c) == c \in LowerSet
IsDigit(c) == c \in DigitSet
\* \s of the re module, over the characters messages are made of
IsSpace(c) == c = " "

\* str.lower()
RECURSIVE lower(_)
lower(s) ==
    IF Len(s) = 0 THEN ""
    ELSE IF Len(s) = 1 THEN (IF IsUpperChar(s) THEN LowerOf[s] ELSE s)
    ELSE LET half == Len(s) \div 2
         IN  lower(SubSeq(s, 1, half)) \o lower(SubSeq(s, half + 1, Len(s)))

\* sub occurs in s starting at index i
OccursAt(s, sub, i) ==
    /\ i >= 1
    /\ i + Len(sub) - 1 <= Len(s)
    /\ SubSeq(s, i, i + Len(sub) - 1) = sub

\* the `in` operator on strings
Contains(s, sub) == \E i \in 1..(Len(s) - Len(sub) + 1) : OccursAt(s, sub, i)

\* str.count of a single character
Count(s, c) == Cardinality({i \in 1..Len(s) : Ch(s, i) = c})

\* the index of the last character of the run of non-whitespace that holds index i
RunEnd(s, i) ==
    CHOOSE e \in i..Len(s) :
        /\ \A j \in i..e : ~IsSpace(Ch(s, j))
        /\ (e = Len(s) \/ IsSpace(Ch(s, e + 1)))

\* str.split(): the maximal runs of non-whitespace characters, left to right
split(s) ==
    LET starts == {i \in 1..Len(s) :
                     ~IsSpace(Ch(s, i)) /\ (i = 1 \/ IsSpace(Ch(s, i - 1)))}
        nth(k) == CHOOSE i \in starts : Cardinality({j \in starts : j < i}) = k - 1
    IN  [k \in 1..Cardinality(starts) |-> SubSeq(s, nth(k), RunEnd(s, nth(k)))]

\* str.isupper(): at least one cased character and no lower-case one
isupper(w) ==
    /\ \E i \in 1..Len(w) : IsUpperChar(Ch(w, i))
    /\ \A i \in 1..Len(w) : ~IsLowerChar(Ch(w, i))

\* str(n) for a natural number
RECURSIVE str(_)
str(n) == IF n < 10 THEN Ch(Digits, n + 1) ELSE str(n \div 10) \o Ch(Digits, (n % 10) + 1)

\* ', '.join(words)
RECURSIVE join(_)
join(words) ==
    IF words = <<>> THEN ""
    ELSE IF Len(words) = 1 THEN words[1]
    ELSE words[1] \o ", " \o join(Tail(words))

\* seq[:n]
Take(seq, n) == SubSeq(seq, 1, Min(n, Len(seq)))

RECURSIVE SumWeights(_)
SumWeights(entries) ==
    IF entries = <<>> THEN 0 ELSE entries[1].weight + SumWeights(Tail(entries))

(***************************************************************************)
(* The pattern registry (module-level tables, never written).              *)
(***************************************************************************)
KW(k, w) == [keyword |-> k, weight |-> w]

\* the dict keeps insertion order
FRAUD_KEYWORDS == <<
    KW("urgent", 3), KW("verify", 2), KW("suspended", 3), KW("account", 2),
    KW("click", 2), KW("immediately", 3), KW("confirm", 2), KW("password", 3),
    KW("otp", 3), KW("pin", 3), KW("bank", 2), KW("credit card", 3),
    KW("social security", 4), KW("ssn", 4), KW("prize", 3), KW("winner", 3),
    KW("congratulations", 2), KW("claim", 2), KW("refund", 2), KW("tax", 2),
    KW("irs", 3), KW("government", 2), KW("lottery", 3), KW("inheritance", 3),
    KW("million", 3), KW("dollars", 2), KW("wire transfer", 4), KW("bitcoin", 3),
    KW("cryptocurrency", 3), KW("gift card", 4), KW("amazon", 2), KW("paypal", 2),
    KW("venmo", 2), KW("zelle", 2), KW("cashapp", 2), KW("limited time", 3),
    KW("act now", 3), KW("expires", 2), KW("final notice", 4), KW("legal action", 4),
    KW("arrest", 4), KW("warrant", 4), KW("debt", 2), KW("owed", 2),
    KW("payment", 2), KW("overdue", 3) >>


(***************************************************************************)
(* The regular expressions of the registry.  A pattern is a sequence of    *)
(* parts; Alt(A) matches one of the literal strings of A, Rep(c, lo, hi)   *)
(* matches lo..hi characters of class c.  re.search succeeds exactly when  *)
(* some start position leads through all parts, so the matcher carries the *)
(* set of positions that can follow each part.  All patterns are searched  *)
(* with re.IGNORECASE and hold only lower-case letters, so they are        *)
(* matched against the lower-cased text.                                   *)
(***************************************************************************)
Alt(A) == [kind |-> "alt", alts |-> A]
Rep(c, lo, hi) == [kind |-> "rep", class |-> c, lo |-> lo, hi |-> hi]
\* one or more characters of class c ( + )
Plus(c) == [kind |-> "plus", class |-> c]

InClass(c, class) ==
    CASE class = "digit" -> IsDigit(c)                                 \* \d
      [] class = "label" -> IsLowerChar(c) \/ IsDigit(c) \/ c = "-"    \* [a-z0-9-]
      [] class = "any"   -> TRUE                                       \* .

AfterPart(part, s, P) ==
    IF part.kind = "alt"
    THEN UNION {{p + Len(a) : p \in {q \in P : OccursAt(s, a, q)}} : a \in part.alts}
    ELSE LET lo == IF part.kind = "plus" THEN 1 ELSE part.lo
             top(p) == IF part.kind = "plus" THEN Len(s) - p + 1
                       ELSE Min(part.hi, Len(s) - p + 1)
             fits(p, n) == part.class = "any"
                             \/ \A j \in p..(p + n - 1) : InClass(Ch(s, j), part.class)
         IN  UNION {{p + n : n \in {k \in lo..top(p) : fits(p, k)}} : p \in P}

RECURSIVE AfterParts(_, _, _)
AfterParts(parts, s, P) ==
    IF parts = <<>> \/ P = {} THEN P
    ELSE AfterParts(Tail(parts), s, AfterPart(parts[1], s, P))

\* re.search(pattern, text, re.IGNORECASE) is not None, given the lower-cased text
search(pattern, text_lower) ==
    AfterParts(pattern, text_lower, 1..(Len(text_lower) + 1)) # {}

Octet == Rep("digit", 1, 3)
Dot == Alt({"."})
FreeDomain(tld) == << Plus("label"), Alt({tld}) >>

SUSPICIOUS_URL_PATTERNS == <<
    << Alt({"bit.ly"}) >>,
    << Alt({"tinyurl"}) >>,
    << Alt({"goo.gl"}) >>,
    << Alt({"t.co"}) >>,
    << Octet, Dot, Octet, Dot, Octet, Dot, Octet >>,
    FreeDomain(".tk"),
    FreeDomain(".ml"),
    FreeDomain(".ga"),
    FreeDomain(".cf"),
    FreeDomain(".gq") >>

URGENCY_PATTERNS == <<
    << Alt({"within "}), Plus("digit"), Alt({" "}),
       Alt({"hour", "hours", "minute", "minutes", "day", "days"}) >>,
    << Alt({"expire", "expires"}), Alt({" "}), Alt({"today", "tonight", "soon"}) >>,
    << Alt({"act "}), Alt({"now", "immediately", "fast"}) >>,
    << Alt({"limited time"}) >>,
    << Alt({"hurry"}) >>,
    << Alt({"don't "}), Alt({"wait", "delay"}) >> >>

SENSITIVE_INFO_PATTERNS == <<
    << Alt({"enter", "provide", "confirm", "verify"}), Rep("any", 0, 20),
       Alt({"password", "pin", "otp", "ssn", "social security"}) >>,
    << Alt({"click", "tap"}), Rep("any", 0, 30), Alt({"link", "here", "below"}) >>,
    << Alt({"reply"}), Rep("any", 0, 20), Alt({"with", "your"}), Rep("any", 0, 20),
       Alt({"password", "pin", "otp", "code"}) >> >>

\* how many patterns of the list are found in the text
MatchCount(patterns, text) ==
    LET text_lower == lower(text)
    IN  Cardinality({i \in 1..Len(patterns) : search(patterns[i], text_lower)})

\* re.findall(r'https?://[^\s]+', message): case-sensitive, leftmost first,
\* each URL running to the next whitespace, the scan resuming after it
UrlStartsAt(message, i) ==
    \E scheme \in {"http://", "https://"} :
        /\ OccursAt(message, scheme, i)
        /\ i + Len(scheme) <= Len(message)
        /\ ~IsSpace(Ch(message, i + Len(scheme)))

RECURSIVE FindUrls(_, _)
FindUrls(message, from) ==
    LET starts == {i \in from..Len(message) : UrlStartsAt(message, i)}
        i == CHOOSE j \in starts : \A k \in starts : j <= k
        stop == RunEnd(message, i)
    IN  IF starts = {} THEN <<>>
        ELSE <<SubSeq(message, i, stop)>> \o FindUrls(message, stop + 1)

(***************************************************************************)
(* Numbers.  A Python float is kept as the exact fraction num/den; the     *)
(* conversions to integers are modelled by what they return on doubles.    *)
(***************************************************************************)
Frac(n, d) == [num |-> n, den |-> d]
AtLeast(x, n) == x.num >= n * x.den

\* round(x * scale) for x >= 0.  No value the engine rounds is an exact tie but
\* the confidence 0.575 of style score 50, whose double lies just below 0.575:
\* round() takes it down to 0.57.
Rounded(x, scale) == (2 * x.num * scale + x.den - 1) \div (2 * x.den)

\* int((score / 50) * 100) on doubles: 29/50 is the double 0.58 and 0.58 * 100 is
\* 57.99999999999999, truncated to 57; every other sum of weights gives 2 * score
Percent(score, max_possible) ==
    IF score = 29 /\ max_possible = 50 THEN 57 ELSE (score * 100) \div max_possible

(***************************************************************************)
(* The five detectors.                                                     *)
(***************************************************************************)
\* every occurrence of a keyword adds its weight
analyze_keywords_counting(message) ==
    LET message_lower == lower(message)
        hits == SelectSeq(FRAUD_KEYWORDS, LAMBDA e : Contains(message_lower, e.keyword))
        occurrences(e) ==
            Cardinality({i \in 1..Len(message_lower) : OccursAt(message_lower, e.keyword, i)})
        weighted == [i \in 1..Len(hits) |->
                       KW(hits[i].keyword, hits[i].weight * occurrences(hits[i]))]
    IN  [score   |-> Min(100, Percent(SumWeights(weighted), 50)),
         matches |-> [i \in 1..Len(hits) |-> hits[i].keyword]]

analyze_keywords(message) ==
    LET message_lower == lower(message)
        hits == SelectSeq(FRAUD_KEYWORDS, LAMBDA e : Contains(message_lower, e.keyword))
        score == SumWeights(hits)
    IN  [score   |-> Min(100, Percent(score, 50)),
         matches |-> [i \in 1..Len(hits) |-> hits[i].keyword]]

\* the loop over the patterns breaks at the first one found: a URL is appended once
IsSuspicious(url) ==
    LET url_lower == lower(url)
    IN  \E i \in 1..Len(SUSPICIOUS_URL_PATTERNS) :
            search(SUSPICIOUS_URL_PATTERNS[i], url_lower)

\* the loop over the patterns without its break: a URL is appended once per pattern
analyze_urls_no_break(message) ==
    LET urls == FindUrls(message, 1)
        times(url) == MatchCount(SUSPICIOUS_URL_PATTERNS, url)
        RECURSIVE appended(_)
        appended(i) ==
            IF i > Len(urls) THEN <<>>
            ELSE [j \in 1..times(urls[i]) |-> urls[i]] \o appended(i + 1)
        suspicious_urls == appended(1)
    IN  [score |-> Min(100, Len(suspicious_urls) * 40),
         suspicious_urls |-> suspicious_urls]

\* the score without its cap
analyze_urls_unclamped(message) ==
    LET urls == FindUrls(message, 1)
        suspicious_urls == SelectSeq(urls, IsSuspicious)
    IN  [score |-> Len(suspicious_urls) * 40,
         suspicious_urls |-> suspicious_urls]

analyze_urls(message) ==
    LET urls == FindUrls(message, 1)
        suspicious_urls == SelectSeq(urls, IsSuspicious)
    IN  [score |-> Min(100, Len(suspicious_urls) * 40),
         suspicious_urls |-> suspicious_urls]

analyze_urgency(message) == Min(100, 20 * MatchCount(URGENCY_PATTERNS, message))

analyze_sensitive_requests(message) ==
    Min(100, 30 * MatchCount(SENSITIVE_INFO_PATTERNS, message))

ContainsAny(s, words) == \E w \in words : Contains(s, w)

\* the six checks, in the order of the source; element i is TRUE when check i fires
StyleChecks(message) ==
    LET message_lower == lower(message)
        words == split(message)
        caps_words == SelectSeq(words, LAMBDA w : isupper(w) /\ Len(w) > 2)
    IN  << Count(message, "!") >= 2,
           Len(caps_words) >= 2,
           ContainsAny(message_lower, {"urgent", "immediately", "now", "hurry"}),
           ContainsAny(message_lower, {"click", "verify", "confirm", "update"}),
           ContainsAny(message_lower, {"suspend", "close", "block", "arrest", "legal"}),
           ContainsAny(message_lower, {"account", "bank", "payment", "refund", "prize"}) >>

\* the label and the confidence of a style score
StyleVerdict(fraud_score) ==
    IF AtLeast(fraud_score, 60)
    THEN [fraud_score |-> fraud_score, label |-> "fraud",
          confidence |-> Frac(fraud_score.num, fraud_score.den * 100)]
    ELSE IF AtLeast(fraud_score, 40)
    THEN [fraud_score |-> fraud_score, label |-> "suspicious",
          \* 0.5 + (fraud_score - 40) / 40 * 0.3
          confidence |-> Frac(200 * fraud_score.den
                                + 3 * (fraud_score.num - 40 * fraud_score.den),
                              400 * fraud_score.den)]
    ELSE [fraud_score |-> fraud_score, label |-> "safe",
          confidence |-> Frac(100 * fraud_score.den - fraud_score.num,
                              100 * fraud_score.den)]

\* the urgency check counting each of its words found, not the check once
simple_nlp_fraud_score_per_word(message) ==
    LET checks == StyleChecks(message)
        total_checks == Len(checks)
        urgency_words == {w \in {"urgent", "immediately", "now", "hurry"} :
                            Contains(lower(message), w)}
        fraud_indicators == Cardinality({i \in 1..total_checks : checks[i] /\ i # 3})
                              + Cardinality(urgency_words)
    IN  StyleVerdict(Frac(fraud_indicators * 100, total_checks))

simple_nlp_fraud_score(message) ==
    LET checks == StyleChecks(message)
        total_checks == Len(checks)
        fraud_indicators == Cardinality({i \in 1..total_checks : checks[i]})
    IN  StyleVerdict(Frac(fraud_indicators * 100, total_checks))

(***************************************************************************)
(* Fusion, classification, explanations and the report.                    *)
(***************************************************************************)
\* round() in place of int()
FusedRiskRounded(nlp_score, keyword_score, url_score, urgency_score, sensitive_score) ==
    (2 * (40 * nlp_score.num
            + nlp_score.den * (25 * keyword_score + 20 * url_score
                                 + 10 * urgency_score + 5 * sensitive_score))
       + 100 * nlp_score.den)
    \div (200 * nlp_score.den)

\* the style score taken whole, its weight 0.4 forgotten
FusedRiskStyleUnweighted(nlp_score, keyword_score, url_score, urgency_score, sensitive_score) ==
    Min(100,
        (100 * nlp_score.num
           + nlp_score.den * (25 * keyword_score + 20 * url_score
                                + 10 * urgency_score + 5 * sensitive_score))
        \div (100 * nlp_score.den))

\* int(nlp*0.4 + keyword*0.25 + url*0.2 + urgency*0.1 + sensitive*0.05).  On every
\* combination of scores the detectors can return, the double sum lies on the same
\* side of each integer as the exact sum, so int() is the floor of the exact sum.
FusedRisk(nlp_score, keyword_score, url_score, urgency_score, sensitive_score) ==
    (40 * nlp_score.num
       + nlp_score.den * (25 * keyword_score + 20 * url_score
                            + 10 * urgency_score + 5 * sensitive_score))
    \div (100 * nlp_score.den)

\* a third bucket at the top level
ClassifyThreeWay(risk_score) ==
    IF risk_score >= 50 THEN "fraud"
    ELSE IF risk_score >= 40 THEN "suspicious" ELSE "safe"

Classify(risk_score) == IF risk_score >= 50 THEN "fraud" ELSE "safe"

Fallback == "No significant fraud indicators detected"

\* the fallback forgotten
ExplainNoFallback(nlp_score, keyword_matches, suspicious_urls, urgency_score, sensitive_score) ==
    (IF AtLeast(nlp_score, 60)
     THEN << "AI detected high fraud probability (" \o str(Rounded(nlp_score, 1)) \o "%)" >>
     ELSE <<>>)
    \o (IF keyword_matches # <<>>
        THEN << "Contains fraud keywords: " \o join(Take(keyword_matches, 3)) >>
        ELSE <<>>)
    \o (IF suspicious_urls # <<>>
        THEN << "Contains " \o str(Len(suspicious_urls)) \o " suspicious URL(s)" >>
        ELSE <<>>)
    \o (IF urgency_score >= 40 THEN << "Uses urgent/pressure language" >> ELSE <<>>)
    \o (IF sensitive_score >= 30 THEN << "Requests sensitive information" >> ELSE <<>>)

\* the reason for urgent language appended from a score of 20 on, not 40
ExplainUrgency20(nlp_score, keyword_matches, suspicious_urls, urgency_score, sensitive_score) ==
    LET reasons ==
            (IF AtLeast(nlp_score, 60)
             THEN << "AI detected high fraud probability ("
                       \o str(Rounded(nlp_score, 1)) \o "%)" >>
             ELSE <<>>)
         \o (IF keyword_matches # <<>>
             THEN << "Contains fraud keywords: " \o join(Take(keyword_matches, 3)) >>
             ELSE <<>>)
         \o (IF suspicious_urls # <<>>
             THEN << "Contains " \o str(Len(suspicious_urls)) \o " suspicious URL(s)" >>
             ELSE <<>>)
         \o (IF urgency_score >= 20 THEN << "Uses urgent/pressure language" >> ELSE <<>>)
         \o (IF sensitive_score >= 30 THEN << "Requests sensitive information" >> ELSE <<>>)
    IN  IF reasons = <<>> THEN << Fallback >> ELSE reasons

Explain(nlp_score, keyword_matches, suspicious_urls, urgency_score, sensitive_score) ==
    LET reasons ==
            (IF AtLeast(nlp_score, 60)
             THEN << "AI detected high fraud probability ("
                       \o str(Rounded(nlp_score, 1)) \o "%)" >>
             ELSE <<>>)
         \o (IF keyword_matches # <<>>
             THEN << "Contains fraud keywords: " \o join(Take(keyword_matches, 3)) >>
             ELSE <<>>)
         \o (IF suspicious_urls # <<>>
             THEN << "Contains " \o str(Len(suspicious_urls)) \o " suspicious URL(s)" >>
             ELSE <<>>)
         \o (IF urgency_score >= 40 THEN << "Uses urgent/pressure language" >> ELSE <<>>)
         \o (IF sensitive_score >= 30 THEN << "Requests sensitive information" >> ELSE <<>>)
    IN  IF reasons = <<>> THEN << Fallback >> ELSE reasons

\* lines 226-281 of detect_fraud: the report made of the five detectors' results.
\* fraud_score is round(nlp_score, 1) and confidence round(nlp_confidence, 2),
\* kept as fractions over 10 and over 100.
Report(kw, url, urgency_score, sensitive_score, nlp) ==
    LET risk_score == FusedRisk(nlp.fraud_score, kw.score, url.score,
                                urgency_score, sensitive_score)
    IN  [classification |-> Classify(risk_score),
         risk_score     |-> risk_score,
         explanations   |-> Explain(nlp.fraud_score, kw.matches, url.suspicious_urls,
                                    urgency_score, sensitive_score),
         details |->
           [nlp |-> [fraud_score |-> Frac(Rounded(nlp.fraud_score, 10), 10),
                     label       |-> nlp.label,
                     confidence  |-> Frac(Rounded(nlp.confidence, 100), 100)],
            keywords |-> [score |-> kw.score, matches |-> Take(kw.matches, 5)],
            urls |-> [score |-> url.score, suspicious_urls |-> url.suspicious_urls],
            urgency_score |-> urgency_score,
            sensitive_info_score |-> sensitive_score]]

\* detect_fraud run from its first line to its return, in the order of the source
detect_fraud(message) ==
    Report(analyze_keywords(message), analyze_urls(message), analyze_urgency(message),
           analyze_sensitive_requests(message), simple_nlp_fraud_score(message))

(***************************************************************************)
(* The state machine: evaluations of detect_fraud in flight.  Each request *)
(* holds the message it was called with, the locals the detectors have     *)
(* assigned so far and, once fused, the report it returns.  The five       *)
(* detector calls of lines 220-224 share no data, so the model lets them   *)
(* run in any order; the order of the source is one of the schedules.      *)
(***************************************************************************)
VARIABLES pc, msg, locals, report

vars == <<pc, msg, locals, report>>

Requests == 1..NumRequests

Detectors == {"keywords", "urls", "urgency", "sensitive", "nlp"}

\* what messages are built of
Fragments == {
    "Hello, how are you today?",
    "URGENT! Verify your account now by clicking this link:",
    "http://bit.ly/xyz",
    "ACT NOW!! hurry, verify your bank pin",
    "Update: https://example.org http://10.0.0.1/a.tk",
    "http://tinyurl.com/a http://goo.gl/b",
    "my pin is not",
    "reply with your code within 24 hours or we block it",
    "confirm password or we suspend the bank account",
    "WINNER!!! Claim your PRIZE now",
    "update now or we close it" }

RECURSIVE MessagesOf(_)
MessagesOf(n) ==
    IF n = 0 THEN {""}
    ELSE LET shorter == MessagesOf(n - 1)
         IN  shorter \cup {IF m = "" THEN f ELSE m \o " " \o f :
                             <<m, f>> \in shorter \X Fragments}

\* the messages a single caller sends
Messages == MessagesOf(MaxTokens)

\* the messages concurrent callers send
ConcMessages == {
    "Hello, how are you today?",
    "URGENT! Verify your account now by clicking this link: http://bit.ly/xyz" }

\* The detectors read nothing but their argument and the registry: their values
\* over the messages of the model, computed once.
KeywordsOf == [m \in Messages |-> analyze_keywords(m)]
UrlsOf == [m \in Messages |-> analyze_urls(m)]
UrgencyOf == [m \in Messages |-> analyze_urgency(m)]
SensitiveOf == [m \in Messages |-> analyze_sensitive_requests(m)]
NlpOf == [m \in Messages |-> simple_nlp_fraud_score(m)]

Init ==
    /\ pc = [r \in Requests |-> "idle"]
    /\ msg = [r \in Requests |-> ""]
    /\ locals = [r \in Requests |-> <<>>]
    /\ report = [r \in Requests |-> <<>>]

Ran(r) == DOMAIN locals[r]

\* detect_fraud(message) is entered
Call(r, message) ==
    /\ pc[r] = "idle"
    /\ pc' = [pc EXCEPT ![r] = "analyze"]
    /\ msg' = [msg EXCEPT ![r] = message]
    /\ UNCHANGED <<locals, report>>

\* the result kept in a module-level slot that every evaluation in flight reads
RunKeywordsShared(r) ==
    /\ pc[r] = "analyze"
    /\ "keywords" \notin Ran(r)
    /\ locals' = [q \in Requests |->
                    IF pc[q] = "analyze"
                    THEN ("keywords" :> KeywordsOf[msg[r]]) @@ locals[q]
                    ELSE locals[q]]
    /\ UNCHANGED <<pc, msg, report>>

\* keyword_score, keyword_matches = analyze_keywords(message)
RunKeywords(r) ==
    /\ pc[r] = "analyze"
    /\ "keywords" \notin Ran(r)
    /\ locals' = [locals EXCEPT ![r] = ("keywords" :> KeywordsOf[msg[r]]) @@ @]
    /\ UNCHANGED <<pc, msg, report>>

\* url_score, suspicious_urls = analyze_urls(message)
RunUrls(r) ==
    /\ pc[r] = "analyze"
    /\ "urls" \notin Ran(r)
    /\ locals' = [locals EXCEPT ![r] = ("urls" :> UrlsOf[msg[r]]) @@ @]
    /\ UNCHANGED <<pc, msg, report>>

\* urgency_score = analyze_urgency(message)
RunUrgency(r) ==
    /\ pc[r] = "analyze"
    /\ "urgency" \notin Ran(r)
    /\ locals' = [locals EXCEPT ![r] = ("urgency" :> UrgencyOf[msg[r]]) @@ @]
    /\ UNCHANGED <<pc, msg, report>>

\* sensitive_score = analyze_sensitive_requests(message)
RunSensitive(r) ==
    /\ pc[r] = "analyze"
    /\ "sensitive" \notin Ran(r)
    /\ locals' = [locals EXCEPT ![r] = ("sensitive" :> SensitiveOf[msg[r]]) @@ @]
    /\ UNCHANGED <<pc, msg, report>>

\* nlp_score, nlp_label, nlp_confidence = simple_nlp_fraud_score(message)
RunNlp(r) ==
    /\ pc[r] = "analyze"
    /\ "nlp" \notin Ran(r)
    /\ locals' = [locals EXCEPT ![r] = ("nlp" :> NlpOf[msg[r]]) @@ @]
    /\ UNCHANGED <<pc, msg, report>>

\* lines 226-281: fuse, classify, explain, build the report
Fuse(r) ==
    /\ pc[r] = "analyze"
    /\ Ran(r) = Detectors
    /\ report' = [report EXCEPT ![r] =
                    << Report(locals[r]["keywords"], locals[r]["urls"],
                              locals[r]["urgency"], locals[r]["sensitive"],
                              locals[r]["nlp"]) >>]
    /\ pc' = [pc EXCEPT ![r] = "done"]
    /\ UNCHANGED <<msg, locals>>

\* the report is handed to the caller and the frame is gone
Return(r) ==
    /\ pc[r] = "done"
    /\ pc' = [pc EXCEPT ![r] = "idle"]
    /\ msg' = [msg EXCEPT ![r] = ""]
    /\ locals' = [locals EXCEPT ![r] = <<>>]
    /\ report' = [report EXCEPT ![r] = <<>>]

\* one caller, one evaluation at a time, any message
Next ==
    \/ \E message \in Messages : Call(1, message)
    \/ RunKeywords(1)
    \/ RunUrls(1)
    \/ RunUrgency(1)
    \/ RunSensitive(1)
    \/ RunNlp(1)
    \/ Fuse(1)
    \/ Return(1)

Spec == Init /\ [][Next]_vars

\* every request served on its own worker, evaluations interleaved at will
NextConc ==
    \E r \in Requests :
        \/ \E message \in ConcMessages : Call(r, message)
        \/ RunKeywords(r)
        \/ RunUrls(r)
        \/ RunUrgency(r)
        \/ RunSensitive(r)
        \/ RunNlp(r)
        \/ Fuse(r)
        \/ Return(r)

SpecConc == Init /\ [][NextConc]_vars

(***************************************************************************)
(* What the claims speak of.                                               *)
(***************************************************************************)
Done(r) == pc[r] = "done"
Out(r) == report[r][1]

Range(seq) == {seq[i] : i \in 1..Len(seq)}

InRange(x) == 0 <= x /\ x <= 100
FracInRange(x) == x.den > 0 /\ 0 <= x.num /\ x.num <= 100 * x.den

\* C1: every report has its five sub-scores in [0,100], an integer risk_score in
\* [0,100] and a classification that is "fraud" or "safe".
C1_Bounded ==
    \A r \in Requests : Done(r) =>
        LET d == Out(r).details
        IN  /\ FracInRange(d.nlp.fraud_score)
            /\ InRange(d.keywords.score)
            /\ InRange(d.urls.score)
            /\ InRange(d.urgency_score)
            /\ InRange(d.sensitive_info_score)
            /\ Out(r).risk_score \in 0..100
            /\ Out(r).classification \in {"fraud", "safe"}

\* a report whose URL score is held at 100 by the clamp (3 URLs would give 120)
C1_Witness ==
    \E r \in Requests :
        /\ Done(r)
        /\ Len(Out(r).details.urls.suspicious_urls) >= 3
        /\ Out(r).details.urls.score = 100

\* C2: risk_score is the floor of style*0.40 + keyword*0.25 + url*0.20 +
\* urgency*0.10 + sensitive*0.05 (truncated, not rounded); the sub-scores
\* (50, 18, 40, 0, 30) give 34 and "safe".
C2_Fusion ==
    \A r \in Requests : Done(r) =>
        LET style == locals[r]["nlp"].fraud_score
            keyword == locals[r]["keywords"].score
            url == locals[r]["urls"].score
            urgency == locals[r]["urgency"]
            sensitive == locals[r]["sensitive"]
            \* 100 * style.den times the weighted sum
            sum == 40 * style.num
                     + style.den * (25 * keyword + 20 * url + 10 * urgency + 5 * sensitive)
            risk == Out(r).risk_score
        IN  /\ risk * 100 * style.den <= sum
            /\ sum < (risk + 1) * 100 * style.den
            /\ (/\ style.num = 50 * style.den
                /\ keyword = 18 /\ url = 40 /\ urgency = 0 /\ sensitive = 30)
               => (risk = 34 /\ Out(r).classification = "safe")

\* the report of the sub-scores (50, 18, 40, 0, 30)
C2_Witness ==
    \E r \in Requests :
        /\ Done(r)
        /\ locals[r]["nlp"].fraud_score.num = 50 * locals[r]["nlp"].fraud_score.den
        /\ locals[r]["keywords"].score = 18
        /\ locals[r]["urls"].score = 40
        /\ locals[r]["urgency"] = 0
        /\ locals[r]["sensitive"] = 30
        /\ Out(r).risk_score = 34

\* C3: classification is "fraud" exactly when risk_score >= 50 and "safe" otherwise,
\* never "suspicious", whatever label the style detector gave.
C3_Threshold ==
    \A r \in Requests : Done(r) =>
        /\ (Out(r).classification = "fraud") <=> (Out(r).risk_score >= 50)
        /\ (Out(r).classification = "safe") <=> (Out(r).risk_score < 50)
        /\ Out(r).classification # "suspicious"

\* a report with style label "fraud" and classification "safe"
C3_Witness ==
    \E r \in Requests :
        /\ Done(r)
        /\ Out(r).details.nlp.label = "fraud"
        /\ Out(r).classification = "safe"

\* the reasons of the explanation list, in their order, each with its condition
Reasons(r) ==
    LET nlp_score == locals[r]["nlp"].fraud_score
        matches == locals[r]["keywords"].matches
        urls == locals[r]["urls"].suspicious_urls
    IN  << [holds |-> AtLeast(nlp_score, 60),
            text  |-> "AI detected high fraud probability ("
                        \o str(Rounded(nlp_score, 1)) \o "%)"],
           [holds |-> Len(matches) >= 1,
            text  |-> "Contains fraud keywords: "
                        \o join(SubSeq(matches, 1, Min(3, Len(matches))))],
           [holds |-> Len(urls) >= 1,
            text  |-> "Contains " \o str(Len(urls)) \o " suspicious URL(s)"],
           [holds |-> locals[r]["urgency"] >= 40,
            text  |-> "Uses urgent/pressure language"],
           [holds |-> locals[r]["sensitive"] >= 30,
            text  |-> "Requests sensitive information"] >>

\* C4: the explanations are non-empty and are exactly the reasons whose condition
\* holds, in the fixed order style, keywords (the first three, in table order),
\* URLs, urgency, sensitive information; the fallback is there if and only if no
\* condition holds, and is then alone.
C4_Explanations ==
    \A r \in Requests : Done(r) =>
        LET e == Out(r).explanations
            reasons == Reasons(r)
            firing == {i \in 1..Len(reasons) : reasons[i].holds}
            \* the place in e of reason i: as many firing reasons come before it
            place(i) == Cardinality({j \in firing : j <= i})
        IN  /\ Len(e) >= 1
            /\ firing # {} =>
                 /\ Len(e) = Cardinality(firing)
                 /\ \A i \in firing : e[place(i)] = reasons[i].text
            /\ (Fallback \in Range(e)) <=> (firing = {})
            /\ firing = {} => e = << Fallback >>
            /\ \A i \in 1..Len(locals[r]["keywords"].matches) :
                 \E k \in 1..Len(FRAUD_KEYWORDS) :
                    /\ FRAUD_KEYWORDS[k].keyword = locals[r]["keywords"].matches[i]
                    /\ \A j \in 1..(i - 1) : \E h \in 1..(k - 1) :
                         FRAUD_KEYWORDS[h].keyword = locals[r]["keywords"].matches[j]

\* a report with all five reasons, of a message that matched more than three keywords
C4_Witness ==
    \E r \in Requests :
        /\ Done(r)
        /\ Len(Out(r).explanations) = 5
        /\ Len(locals[r]["keywords"].matches) > 3
        /\ Fallback \notin Range(Out(r).explanations)

\* detect_fraud run alone, from its first line to its return, on each message the
\* concurrent callers send
ReportOf == [m \in ConcMessages |-> detect_fraud(m)]

SameReport ==
    \A r \in Requests : Done(r) =>
        /\ Out(r) = ReportOf[msg[r]]
        /\ \A q \in Requests : (Done(q) /\ msg[q] = msg[r]) => report[q] = report[r]

Frame(r) == <<pc[r], msg[r], locals[r], report[r]>>

\* C5: the report is a function of the message alone: whatever the order of the
\* detectors and however evaluations interleave, every evaluation of a message
\* returns the report of detect_fraud run alone on it, two evaluations of one
\* message return the same report, and no step of one evaluation changes the
\* state of another.
C5_Deterministic ==
    /\ []SameReport
    /\ [][Cardinality({r \in Requests : Frame(r)' # Frame(r)}) <= 1]_vars

\* one evaluation has returned its report while another, of a different message,
\* is under way with its detectors run out of the order of the source
C5_Witness ==
    \E r, q \in Requests :
        /\ Done(r)
        /\ pc[q] = "analyze"
        /\ msg[q] # msg[r]
        /\ Ran(q) = {"nlp", "urls"}

\* message with k put in after its first i characters
AddAt(message, i, k) ==
    SubSeq(message, 1, i) \o k \o SubSeq(message, i + 1, Len(message))

\* C6 as claimed: for a message that contains keyword k, adding one more occurrence
\* of k, wherever in the message, never changes the keyword score.
C6_AnyOccurrence ==
    \A r \in Requests : Done(r) =>
        \A k \in Range(locals[r]["keywords"].matches) :
            \A i \in 0..Len(msg[r]) :
                analyze_keywords(AddAt(msg[r], i, k)).score = locals[r]["keywords"].score

\* C6: for a message that contains keyword k, adding one more occurrence of k at
\* the start or the end of the message, a space apart from it, never changes the
\* keyword score.
C6_SeparateWord ==
    \A r \in Requests : Done(r) =>
        \A k \in Range(locals[r]["keywords"].matches) :
            /\ analyze_keywords(msg[r] \o " " \o k).score = locals[r]["keywords"].score
            /\ analyze_keywords(k \o " " \o msg[r]).score = locals[r]["keywords"].score

\* a scored message that holds a keyword and ends in the beginning of another one
C6_Witness ==
    \E r \in Requests :
        /\ Done(r)
        /\ locals[r]["keywords"].matches = << "pin" >>
        /\ locals[r]["keywords"].score = 6
        /\ analyze_keywords(msg[r] \o " pin").score = 6
        /\ analyze_keywords(msg[r] \o "pin").matches = << "otp", "pin" >>

NoSignal(r) ==
    /\ locals[r]["keywords"].matches = <<>>
    /\ locals[r]["urls"].suspicious_urls = <<>>
    /\ locals[r]["urgency"] = 0
    /\ locals[r]["sensitive"] = 0
    /\ locals[r]["nlp"].fraud_score.num = 0

\* C7: a message in which no detector finds a signal, the empty string among them,
\* gets a complete report with risk_score 0, classification "safe" and the
\* fallback as its only explanation.
C7_NoSignal ==
    \A r \in Requests : Done(r) =>
        /\ msg[r] = "" => NoSignal(r)
        /\ NoSignal(r) =>
             Out(r) = [classification |-> "safe",
                       risk_score     |-> 0,
                       explanations   |-> << Fallback >>,
                       details |->
                         [nlp |-> [fraud_score |-> Frac(0, 10), label |-> "safe",
                                   confidence |-> Frac(100, 100)],
                          keywords |-> [score |-> 0, matches |-> <<>>],
                          urls |-> [score |-> 0, suspicious_urls |-> <<>>],
                          urgency_score |-> 0,
                          sensitive_info_score |-> 0]]

\* the report of the empty string
C7_Witness == \E r \in Requests : Done(r) /\ msg[r] = "" /\ NoSignal(r)

\* the URLs of the message that some suspicious pattern is found in
SuspiciousCount(message) ==
    LET urls == FindUrls(message, 1)
    IN  Cardinality({i \in 1..Len(urls) : MatchCount(SUSPICIOUS_URL_PATTERNS, urls[i]) >= 1})

\* C8: with n suspicious URLs in the message, each counted once however many
\* patterns it matches, the URL score is min(100, 40*n): 0, 40, 80, then 100.
C8_UrlScore ==
    \A r \in Requests : Done(r) =>
        LET n == SuspiciousCount(msg[r])
            score == locals[r]["urls"].score
        IN  /\ Len(locals[r]["urls"].suspicious_urls) = n
            /\ n = 0 => score = 0
            /\ n = 1 => score = 40
            /\ n = 2 => score = 80
            /\ n >= 3 => score = 100

\* three suspicious URLs, one of them matching two patterns
C8_Witness ==
    \E r \in Requests :
        /\ Done(r)
        /\ Len(locals[r]["urls"].suspicious_urls) = 3
        /\ locals[r]["urls"].score = 100
        /\ \E i \in 1..3 :
             MatchCount(SUSPICIOUS_URL_PATTERNS, locals[r]["urls"].suspicious_urls[i]) >= 2

\* C9: with k of the six style checks matched, the style score is k/6*100 and the
\* label is "fraud" for k >= 4, "suspicious" for k = 3 and "safe" for k <= 2; a
\* check counts once however many of its words or characters occur.
C9_Style ==
    \A r \in Requests : Done(r) =>
        LET checks == StyleChecks(msg[r])
            k == Cardinality({i \in 1..Len(checks) : checks[i]})
            nlp == locals[r]["nlp"]
        IN  /\ Len(checks) = 6
            /\ 6 * nlp.fraud_score.num = 100 * k * nlp.fraud_score.den
            /\ k >= 4 => nlp.label = "fraud"
            /\ k = 3 => nlp.label = "suspicious"
            /\ k <= 2 => nlp.label = "safe"
            /\ AtLeast(nlp.fraud_score, 60) <=> k >= 4
            /\ AtLeast(nlp.fraud_score, 40) <=> k >= 3

\* three matched checks, the urgency check among them with two of its words found
C9_Witness ==
    \E r \in Requests :
        /\ Done(r)
        /\ locals[r]["nlp"].label = "suspicious"
        /\ Contains(lower(msg[r]), "urgent")
        /\ Contains(lower(msg[r]), "now")

\* C10: a report classified "fraud" never holds the fallback and holds at least
\* one of the five reasons; a report whose explanations are the fallback alone
\* has risk_score < 50.
C10_FraudHasReason ==
    \A r \in Requests : Done(r) =>
        LET e == Out(r).explanations
            reasons == Reasons(r)
        IN  /\ Out(r).classification = "fraud" =>
                 /\ Fallback \notin Range(e)
                 /\ \E i \in 1..Len(reasons) :
                        reasons[i].holds /\ reasons[i].text \in Range(e)
            /\ e = << Fallback >> => Out(r).risk_score < 50

\* a report classified "fraud"
C10_Witness ==
    \E r \in Requests :
        /\ Done(r)
        /\ Out(r).classification = "fraud"
        /\ Out(r).risk_score >= 50

====
